---- MODULE Spec2Model ----
(***************************************************************************)
(* Model of cc-demo: CCProxy (src/proxy.py), a sequential client of the    *)
(* Common Crawl index.  The constructor resolves one index per year        *)
(* (_init_idxs); build_records walks years x urls, calling _query and      *)
(* _fetch for each pair.  Every HTTP exchange is two steps: the program    *)
(* issues the request and blocks, the network answers, and the program     *)
(* handles the answer in the step that follows.                            *)
(***************************************************************************)
EXTENDS Integers, Sequences, FiniteSets, TLC

VARIABLES
    pc,        \* position of the single thread of control
    exc,       \* uncaught exception that ended the run, NoExc while running
    response,  \* the most recent HTTP response (the local `response`)
    crawls,    \* _init_idxs: the local `crawls`
    ci,        \* _init_idxs: position of the `for c in crawls` loop
    idxs,      \* self.idxs, a dict kept in insertion order: year -> id
    records,   \* self.records: year -> DataFrame
    yi,        \* build_records: position in self.idxs.items()
    ui,        \* build_records: position in urls
    cands,     \* build_records: the local `records` returned by _query
    k,         \* _fetch: position of the `for record in records` loop
    page,      \* build_records: the local `page` returned by _fetch
    reqs,      \* requests issued since the current iteration began
    out,       \* lines printed since the current iteration began
    saved,     \* save: the years whose CSV file has been written
    sent       \* the catalog requests counted, the lookups issued in order

vars == <<pc, exc, response, crawls, ci, idxs, records, yi, ui, cands, k,
          page, reqs, out, saved, sent>>

(***************************************************************************)
(* Bounds of the model.                                                    *)
(***************************************************************************)
MaxCrawls == 3     \* descriptors in the catalog
MaxLines == 2      \* lines in a lookup response body
NumUrls == 2       \* urls handed to build_records

(***************************************************************************)
(* Strings are sequences of one-character strings; bytes are numbers.      *)
(***************************************************************************)
IsDigit(c) == c \in {"0", "1", "2", "3", "4", "5", "6", "7", "8", "9"}

DigitVal(c) ==
    CASE c = "0" -> 0 [] c = "1" -> 1 [] c = "2" -> 2 [] c = "3" -> 3
      [] c = "4" -> 4 [] c = "5" -> 5 [] c = "6" -> 6 [] c = "7" -> 7
      [] c = "8" -> 8 [] c = "9" -> 9

\* int(s) accepts s when it is a non-empty run of digits (the inputs of this
\* model carry no sign, blank or underscore); otherwise it raises ValueError.
IntOk(s) == Len(s) > 0 /\ \A i \in 1..Len(s) : IsDigit(s[i])

RECURSIVE IntVal(_)
IntVal(s) ==
    IF s = <<>> THEN 0
    ELSE 10 * IntVal(SubSeq(s, 1, Len(s) - 1)) + DigitVal(s[Len(s)])

\* s.split("/")[0]: the part of s before its first "/", all of s if none.
SplitFirst(s) ==
    LET slashes == {i \in 1..Len(s) : s[i] = "/"}
    IN  IF slashes = {} THEN s
        ELSE SubSeq(s, 1, (CHOOSE i \in slashes : \A j \in slashes : i <= j) - 1)

(***************************************************************************)
(* Configuration (CCProxyConfig).                                          *)
(***************************************************************************)
TargetMonth == <<"0", "1">>                   \* cfg.target_month
YearRange == {2020, 2021}                     \* cfg.year_range = range(2020, 2022)
AllUrls == <<"https://a.org", "https://b.org", "https://c.org">>
Urls == SubSeq(AllUrls, 1, NumUrls)           \* the argument of build_records

(***************************************************************************)
(* Exceptions and responses.                                               *)
(***************************************************************************)
NoExc == "none"

\* err: requests.get raised instead of returning a response.
NoResponse == [err |-> FALSE, status |-> 0, body |-> <<>>]
Unreachable == [err |-> TRUE, status |-> 0, body |-> <<>>]
Resp(st, b) == [err |-> FALSE, status |-> st, body |-> b]

(***************************************************************************)
(* The catalog endpoint (collinfo.json).  A descriptor is a JSON object    *)
(* that may lack "id" and may lack "timegate".                             *)
(***************************************************************************)
TG_2020_01 == <<"2","0","2","0","-","0","1","/","2","0","2","0","-","0","2">>
TG_2021_01 == <<"2","0","2","1","-","0","1","/","2","0","2","1","-","0","2">>
TG_2020_02 == <<"2","0","2","0","-","0","2","/","2","0","2","0","-","0","3">>
TG_2019_01 == <<"2","0","1","9","-","0","1","/","2","0","1","9","-","0","2">>
TG_Short == <<"2","0","2","0","-","0","/","2","0","2","0","-","0","1">>
TG_NonNum == <<"2","0","x","0","-","0","1","/","2","0","2","0","-","0","2">>
TG_ShortNonNum == <<"2","0","x","/","2","0","2","0","-","0","1">>
Timegates == {TG_2020_01, TG_2021_01, TG_2020_02, TG_2019_01, TG_Short, TG_NonNum,
              TG_ShortNonNum}

IdNames == <<"CC-MAIN-A", "CC-MAIN-B", "CC-MAIN-C", "CC-MAIN-D", "CC-MAIN-E">>

DescShapes ==
    [hasId : {TRUE}, hasTimegate : {TRUE}, timegate : Timegates]
        \cup [hasId : BOOLEAN, hasTimegate : {FALSE}, timegate : {<<>>}]
        \cup {[hasId |-> FALSE, hasTimegate |-> TRUE, timegate |-> TG_2020_01]}

\* The i-th descriptor of a catalog carries the i-th id, so that ids differ.
Catalogs ==
    UNION {{[i \in 1..n |->
                [id |-> IdNames[i], hasId |-> f[i].hasId,
                 hasTimegate |-> f[i].hasTimegate, timegate |-> f[i].timegate]]
            : f \in [1..n -> DescShapes]} : n \in 0..MaxCrawls}

CatalogResponses ==
    {Unreachable, Resp(500, <<>>)} \cup {Resp(200, c) : c \in Catalogs}

(***************************************************************************)
(* Python dict self.idxs as a sequence of entries in insertion order.      *)
(***************************************************************************)
DictKeys(d) == {d[i].yr : i \in 1..Len(d)}

\* ScanOne without the test `year not in idxs`: a later descriptor that
\* matches an already selected year replaces that year's id.
ScanOne_LastWins(c, d) ==
    IF ~c.hasId THEN [exc |-> "KeyError", idxs |-> d]
    ELSE IF ~c.hasTimegate THEN [exc |-> NoExc, idxs |-> d]
    ELSE LET start_date == SplitFirst(c.timegate)
         IN  IF Len(start_date) < 7 THEN [exc |-> NoExc, idxs |-> d]
             ELSE LET yearStr == SubSeq(start_date, 1, 4)
                      month == SubSeq(start_date, 6, 7)
                  IN  IF ~IntOk(yearStr) THEN [exc |-> "ValueError", idxs |-> d]
                      ELSE LET year == IntVal(yearStr)
                           IN  IF month = TargetMonth /\ year \in YearRange
                               THEN [exc |-> NoExc,
                                     idxs |->
                                       IF year \in DictKeys(d)
                                       THEN [i \in 1..Len(d) |->
                                               IF d[i].yr = year
                                               THEN [yr |-> year, id |-> c.id]
                                               ELSE d[i]]
                                       ELSE Append(d, [yr |-> year, id |-> c.id])]
                               ELSE [exc |-> NoExc, idxs |-> d]

\* s[a-1:b] of Python: a slice never fails, it ends where s ends.
Slice(s, a, b) == SubSeq(s, a, IF b <= Len(s) THEN b ELSE Len(s))

\* ScanOne without the test `len(start_date) >= 7`.
ScanOne_NoLengthCheck(c, d) ==
    IF ~c.hasId THEN [exc |-> "KeyError", idxs |-> d]
    ELSE IF ~c.hasTimegate THEN [exc |-> NoExc, idxs |-> d]
    ELSE LET start_date == SplitFirst(c.timegate)
             year_month == Slice(start_date, 1, 7)
             yearStr == Slice(year_month, 1, 4)
             month == Slice(year_month, 6, 7)
         IN  IF ~IntOk(yearStr) THEN [exc |-> "ValueError", idxs |-> d]
             ELSE LET year == IntVal(yearStr)
                  IN  IF /\ month = TargetMonth
                         /\ year \in YearRange
                         /\ year \notin DictKeys(d)
                      THEN [exc |-> NoExc,
                            idxs |-> Append(d, [yr |-> year, id |-> c.id])]
                      ELSE [exc |-> NoExc, idxs |-> d]

\* One pass of the body of `for c in crawls` (proxy.py 123-136) over the
\* descriptor c with the selection d built so far: the exception it raises,
\* if any, and the selection after it.
ScanOne(c, d) ==
    IF ~c.hasId THEN [exc |-> "KeyError", idxs |-> d]
    ELSE IF ~c.hasTimegate THEN [exc |-> NoExc, idxs |-> d]
    ELSE LET start_date == SplitFirst(c.timegate)
         IN  IF Len(start_date) < 7 THEN [exc |-> NoExc, idxs |-> d]
             ELSE LET year_month == SubSeq(start_date, 1, 7)
                      yearStr == SubSeq(year_month, 1, 4)
                      month == SubSeq(year_month, 6, 7)
                  IN  IF ~IntOk(yearStr) THEN [exc |-> "ValueError", idxs |-> d]
                      ELSE LET year == IntVal(yearStr)
                           IN  IF /\ month = TargetMonth
                                  /\ year \in YearRange
                                  /\ year \notin DictKeys(d)
                               THEN [exc |-> NoExc,
                                     idxs |-> Append(d, [yr |-> year, id |-> c.id])]
                               ELSE [exc |-> NoExc, idxs |-> d]

(***************************************************************************)
(* The archive storage endpoint.  A 206 body is a WARC stream: a sequence  *)
(* of records, each with a type and a payload; a "malformed" item is a     *)
(* place where ArchiveIterator raises.                                     *)
(***************************************************************************)
BodyEmpty == <<>>
BodyHi == <<104, 255, 105>>          \* "h", a byte that is not UTF-8, "i"
BodyBlank == <<32>>                  \* a single space

WarcRec(t, b) == [type |-> t, body |-> b]
Malformed == WarcRec("malformed", <<>>)
Request == WarcRec("request", <<71>>)

\* What the storage endpoint answers for each archive file; for
\* "unresponsive.warc.gz" it accepts the request and never answers.
Files == {"unreachable.warc.gz", "status200.warc.gz", "request.warc.gz",
          "malformed.warc.gz", "hi.warc.gz", "empty.warc.gz", "blank.warc.gz",
          "request-hi.warc.gz", "request-malformed.warc.gz",
          "hi-empty.warc.gz", "unresponsive.warc.gz"}

Storage(f) ==
    CASE f = "unreachable.warc.gz" -> Unreachable
      [] f = "status200.warc.gz" -> Resp(200, <<WarcRec("response", BodyHi)>>)
      [] f = "request.warc.gz" -> Resp(206, <<Request>>)
      [] f = "malformed.warc.gz" -> Resp(206, <<Malformed>>)
      [] f = "hi.warc.gz" -> Resp(206, <<WarcRec("response", BodyHi)>>)
      [] f = "empty.warc.gz" -> Resp(206, <<WarcRec("response", BodyEmpty)>>)
      [] f = "blank.warc.gz" -> Resp(206, <<WarcRec("response", BodyBlank)>>)
      [] f = "request-hi.warc.gz" ->
             Resp(206, <<Request, WarcRec("response", BodyHi)>>)
      [] f = "request-malformed.warc.gz" -> Resp(206, <<Request, Malformed>>)
      [] f = "hi-empty.warc.gz" ->
             Resp(206, <<WarcRec("response", BodyHi),
                         WarcRec("response", BodyEmpty)>>)
      [] f = "unresponsive.warc.gz" -> NoResponse

\* ScanStream that passes over a "response" record whose payload is empty.
RECURSIVE ScanStream_NonEmpty(_)
ScanStream_NonEmpty(s) ==
    IF s = <<>> THEN [kind |-> "none", body |-> <<>>]
    ELSE IF Head(s).type = "malformed" THEN [kind |-> "error", body |-> <<>>]
    ELSE IF Head(s).type = "response" /\ Head(s).body # <<>>
         THEN [kind |-> "found", body |-> Head(s).body]
         ELSE ScanStream_NonEmpty(Tail(s))

\* ScanStream that keeps iterating and returns the last "response" record.
RECURSIVE ScanStream_Last(_)
ScanStream_Last(s) ==
    IF s = <<>> THEN [kind |-> "none", body |-> <<>>]
    ELSE IF Head(s).type = "malformed" THEN [kind |-> "error", body |-> <<>>]
    ELSE LET rest == ScanStream_Last(Tail(s))
         IN  IF Head(s).type = "response" /\ rest.kind # "found"
             THEN [kind |-> "found", body |-> Head(s).body]
             ELSE rest

\* proxy.py 195-203: iterate the stream, stop at the first "response" record.
\* "found" carries its payload, "error" is an exception raised by the
\* iterator, "none" is a stream that ended without a response record.
RECURSIVE ScanStream(_)
ScanStream(s) ==
    IF s = <<>> THEN [kind |-> "none", body |-> <<>>]
    ELSE IF Head(s).type = "malformed" THEN [kind |-> "error", body |-> <<>>]
    ELSE IF Head(s).type = "response" THEN [kind |-> "found", body |-> Head(s).body]
    ELSE ScanStream(Tail(s))

\* bytes.decode("utf-8", errors="ignore"): bytes that do not decode are dropped.
Decode(b) == SelectSeq(b, LAMBDA x : x < 128)

\* BeautifulSoup(page, "html.parser").get_text(strip=True, separator=" ") on
\* markup without tags: the text with the surrounding blanks removed.
RECURSIVE LStrip(_)
LStrip(s) == IF s # <<>> /\ Head(s) = 32 THEN LStrip(Tail(s)) ELSE s

RECURSIVE RStrip(_)
RStrip(s) ==
    IF s # <<>> /\ s[Len(s)] = 32 THEN RStrip(SubSeq(s, 1, Len(s) - 1)) ELSE s

ExtractText(p) == RStrip(LStrip(p))

(***************************************************************************)
(* The index lookup endpoint.  A capture record is a JSON object that may  *)
(* lack "offset"; offset and length are strings.  A body is a sequence of  *)
(* lines joined by "\n"; a line is a JSON object, blank, or not JSON.      *)
(***************************************************************************)
Capture(f, hasOff, off) ==
    [filename |-> f, hasOffset |-> hasOff, offset |-> off, length |-> <<"5">>]

Captures ==
    {Capture(f, TRUE, <<"1", "0">>) : f \in Files}
        \cup {Capture("hi.warc.gz", TRUE, <<"x">>),
              Capture("hi.warc.gz", FALSE, <<>>)}

NoCapture == Capture("", FALSE, <<>>)
BlankLine == [kind |-> "blank", rec |-> NoCapture]
GarbageLine == [kind |-> "garbage", rec |-> NoCapture]
JsonLine(r) == [kind |-> "json", rec |-> r]
LookupLines == {BlankLine, GarbageLine} \cup {JsonLine(r) : r \in Captures}

LookupTexts == UNION {[1..n -> LookupLines] : n \in 0..MaxLines}

LookupResponses ==
    {Unreachable, Resp(404, <<>>), Resp(503, <<>>)}
        \cup {Resp(200, t) : t \in LookupTexts}

\* response.text.strip().split("\n") on a body given as its lines: blank
\* lines at either end are stripped, and "".split("\n") is [""].
RECURSIVE DropLeadingBlank(_)
DropLeadingBlank(t) ==
    IF t # <<>> /\ Head(t).kind = "blank" THEN DropLeadingBlank(Tail(t)) ELSE t

RECURSIVE DropTrailingBlank(_)
DropTrailingBlank(t) ==
    IF t # <<>> /\ t[Len(t)].kind = "blank"
    THEN DropTrailingBlank(SubSeq(t, 1, Len(t) - 1))
    ELSE t

StripSplit(t) ==
    LET s == DropTrailingBlank(DropLeadingBlank(t))
    IN  IF s = <<>> THEN <<BlankLine>> ELSE s

NoneList == [isNone |-> TRUE, list |-> <<>>]
SomeList(l) == [isNone |-> FALSE, list |-> l]

\* QueryResult without the status test: the body is parsed whatever the status.
QueryResult_AnyStatus(r) ==
    LET lines == StripSplit(r.body)
    IN  IF \E i \in 1..Len(lines) : lines[i].kind # "json"
        THEN [exc |-> "JSONDecodeError", val |-> NoneList]
        ELSE [exc |-> NoExc,
              val |-> SomeList([i \in 1..Len(lines) |-> lines[i].rec])]

\* proxy.py 156-160: the value _query returns for a response it received, or
\* the exception json.loads raises on a line that is not JSON.
QueryResult(r) ==
    IF r.status = 200
    THEN LET lines == StripSplit(r.body)
         IN  IF \E i \in 1..Len(lines) : lines[i].kind # "json"
             THEN [exc |-> "JSONDecodeError", val |-> NoneList]
             ELSE [exc |-> NoExc,
                   val |-> SomeList([i \in 1..Len(lines) |-> lines[i].rec])]
    ELSE [exc |-> NoExc, val |-> NoneList]

\* Truthy as `records is not None or True`: _fetch is called for every url.
Truthy_Always(c) == TRUE

\* Python truth value of the local `records` (proxy.py 56).
Truthy(c) == ~c.isNone /\ Len(c.list) > 0

(***************************************************************************)
(* polars DataFrame: the column names and the rows.                        *)
(***************************************************************************)
EmptyFrame == [columns |-> <<"url", "content">>, rows |-> <<>>]

\* proxy.py 63, self.records[yr][u] = text: DataFrame.__setitem__ with a
\* string key raises TypeError and leaves the frame as it was.
DataFrameSetItem(df, key, value) == [exc |-> "TypeError", df |-> df]

NonePage == [isNone |-> TRUE, val |-> <<>>]
SomePage(v) == [isNone |-> FALSE, val |-> v]

(***************************************************************************)
(* CCProxy.__init__ and _init_idxs.                                        *)
(***************************************************************************)
Init ==
    /\ pc = "new"
    /\ exc = NoExc
    /\ response = NoResponse
    /\ crawls = <<>>
    /\ ci = 1
    /\ idxs = <<>>
    /\ records = <<>>
    /\ yi = 1
    /\ ui = 1
    /\ cands = NoneList
    /\ k = 1
    /\ page = NonePage
    /\ reqs = <<>>
    /\ out = <<>>
    /\ saved = {}
    /\ sent = [collinfo |-> 0, lookups |-> <<>>]

\* proxy.py 113-116: the constructor calls _init_idxs, which requests the catalog.
InitIdxsRequest ==
    /\ pc = "new" /\ exc = NoExc
    /\ sent' = [sent EXCEPT !.collinfo = @ + 1]
    /\ UNCHANGED saved
    /\ pc' = "collinfo_wait"
    /\ reqs' = Append(reqs, [kind |-> "collinfo"])
    /\ UNCHANGED <<exc, response, crawls, ci, idxs, records, yi, ui, cands, k,
                   page, out>>

\* The catalog endpoint answers, or the connection fails.
CollinfoRespond ==
    /\ pc = "collinfo_wait" /\ exc = NoExc
    /\ UNCHANGED <<saved, sent>>
    /\ response = NoResponse
    /\ \E r \in CatalogResponses : response' = r
    /\ UNCHANGED <<pc, exc, crawls, ci, idxs, records, yi, ui, cands, k, page,
                   reqs, out>>

\* proxy.py 117-121: exit(1) when requests.get raised; otherwise crawls is
\* the decoded body on status 200 and stays empty on any other status.
InitIdxsHandle ==
    /\ pc = "collinfo_wait" /\ exc = NoExc
    /\ UNCHANGED <<saved, sent>>
    /\ response # NoResponse
    /\ IF response.err
       THEN /\ pc' = "exit"
            /\ out' = Append(out, "Error accessing Common Crawl indexes")
            /\ UNCHANGED crawls
       ELSE /\ pc' = "scan"
            /\ crawls' = IF response.status = 200 THEN response.body ELSE <<>>
            /\ UNCHANGED out
    /\ ci' = 1
    /\ idxs' = <<>>
    /\ UNCHANGED <<exc, response, records, yi, ui, cands, k, page, reqs>>

\* proxy.py 122-136: one iteration of `for c in crawls`.
ScanCrawl ==
    /\ pc = "scan" /\ exc = NoExc
    /\ UNCHANGED <<saved, sent>>
    /\ ci <= Len(crawls)
    /\ LET r == ScanOne(crawls[ci], idxs)
       IN  /\ exc' = r.exc
           /\ idxs' = r.idxs
           /\ ci' = IF r.exc = NoExc THEN ci + 1 ELSE ci
    /\ UNCHANGED <<pc, response, crawls, records, yi, ui, cands, k, page, reqs,
                   out>>

\* proxy.py 137, 30-31: _init_idxs returns, self.idxs and self.records are
\* set; the locals of _init_idxs are gone.
InitIdxsReturn ==
    /\ pc = "scan" /\ exc = NoExc
    /\ UNCHANGED <<saved, sent>>
    /\ ci > Len(crawls)
    /\ pc' = "constructed"
    /\ records' = <<>>
    /\ crawls' = <<>>
    /\ ci' = 1
    /\ response' = NoResponse
    /\ UNCHANGED <<exc, idxs, yi, ui, cands, k, page, reqs, out>>

(***************************************************************************)
(* CCProxy.build_records, _query and _fetch.                               *)
(***************************************************************************)
CurYear == idxs[yi].yr
CurUrl == Urls[ui]

\* BuildRecordsCall that resolves the indexes again: build_records calls
\* _init_idxs before it iterates.
BuildRecordsCall_Refetch ==
    /\ pc = "constructed" /\ exc = NoExc
    /\ pc' = "collinfo_wait"
    /\ reqs' = Append(reqs, [kind |-> "collinfo"])
    /\ sent' = [sent EXCEPT !.collinfo = @ + 1]
    /\ UNCHANGED <<exc, response, crawls, ci, idxs, records, yi, ui, cands, k,
                   page, out, saved>>

\* proxy.py 52: build_records is called on the constructed proxy.
BuildRecordsCall ==
    /\ pc = "constructed" /\ exc = NoExc
    /\ UNCHANGED <<saved, sent>>
    /\ pc' = "years"
    /\ yi' = 1
    /\ UNCHANGED <<exc, response, crawls, ci, idxs, records, ui, cands, k, page,
                   reqs, out>>

\* YearStep that empties self.idxs once the last year has been processed.
YearStep_ClearsIdxs ==
    /\ pc = "years" /\ exc = NoExc
    /\ UNCHANGED <<saved, sent>>
    /\ IF yi <= Len(idxs)
       THEN /\ pc' = "urls"
            /\ records' = [y \in DOMAIN records \cup {CurYear} |->
                              IF y = CurYear THEN EmptyFrame ELSE records[y]]
            /\ ui' = 1
            /\ UNCHANGED idxs
       ELSE /\ pc' = "built"
            /\ idxs' = <<>>
            /\ UNCHANGED <<records, ui>>
    /\ UNCHANGED <<exc, response, crawls, ci, yi, cands, k, page, reqs, out>>

\* proxy.py 52-53: the next year of self.idxs.items() gets an empty frame;
\* build_records returns when the years are exhausted.
YearStep ==
    /\ pc = "years" /\ exc = NoExc
    /\ UNCHANGED <<saved, sent>>
    /\ IF yi <= Len(idxs)
       THEN /\ pc' = "urls"
            /\ records' = [y \in DOMAIN records \cup {CurYear} |->
                              IF y = CurYear THEN EmptyFrame ELSE records[y]]
            /\ ui' = 1
       ELSE /\ pc' = "built"
            /\ UNCHANGED <<records, ui>>
    /\ UNCHANGED <<exc, response, crawls, ci, idxs, yi, cands, k, page, reqs, out>>

\* proxy.py 54-55, 153-155: the next url is looked up in the year's index;
\* the year is done when the urls are exhausted.
UrlStep ==
    /\ pc = "urls" /\ exc = NoExc
    /\ sent' = IF ui <= Len(Urls)
               THEN [sent EXCEPT !.lookups = Append(@, <<CurYear, CurUrl>>)]
               ELSE sent
    /\ UNCHANGED saved
    /\ IF ui <= Len(Urls)
       THEN /\ pc' = "lookup_wait"
            /\ reqs' = <<[kind |-> "lookup", idx |-> idxs[yi].id, url |-> CurUrl]>>
            /\ out' = <<>>
            /\ response' = NoResponse
            /\ cands' = NoneList
            /\ page' = NonePage
            /\ k' = 1
            /\ UNCHANGED yi
       ELSE /\ pc' = "years"
            /\ yi' = yi + 1
            /\ UNCHANGED <<reqs, out, response, cands, page, k>>
    /\ UNCHANGED <<exc, crawls, ci, idxs, records, ui>>

\* The lookup endpoint answers, or the connection fails.
LookupRespond ==
    /\ pc = "lookup_wait" /\ exc = NoExc
    /\ UNCHANGED <<saved, sent>>
    /\ response = NoResponse
    /\ \E r \in LookupResponses : response' = r
    /\ UNCHANGED <<pc, exc, crawls, ci, idxs, records, yi, ui, cands, k, page,
                   reqs, out>>

\* proxy.py 155-160: _query returns; an exception of requests.get or of
\* json.loads is caught nowhere.
QueryHandle ==
    /\ pc = "lookup_wait" /\ exc = NoExc
    /\ UNCHANGED <<saved, sent>>
    /\ response # NoResponse
    /\ IF response.err
       THEN /\ exc' = "ConnectionError"
            /\ UNCHANGED <<pc, cands>>
       ELSE LET r == QueryResult(response)
            IN  /\ exc' = r.exc
                /\ cands' = r.val
                /\ pc' = IF r.exc = NoExc THEN "queried" ELSE pc
    /\ UNCHANGED <<response, crawls, ci, idxs, records, yi, ui, k, page, reqs, out>>

\* proxy.py 56-57: _fetch is called only when `records` is truthy.
RecordsCheck ==
    /\ pc = "queried" /\ exc = NoExc
    /\ UNCHANGED <<saved, sent>>
    /\ IF Truthy(cands)
       THEN /\ pc' = "fetch"
            /\ k' = 1
            /\ UNCHANGED ui
       ELSE /\ pc' = "urls"
            /\ ui' = ui + 1
            /\ UNCHANGED k
    /\ UNCHANGED <<exc, response, crawls, ci, idxs, records, yi, cands, page,
                   reqs, out>>

\* proxy.py 181-192: the next candidate's offset and length are converted
\* and its byte range is requested; _fetch returns None after the last (206).
FetchStep ==
    /\ pc = "fetch" /\ exc = NoExc
    /\ UNCHANGED <<saved, sent>>
    /\ IF k <= Len(cands.list)
       THEN LET record == cands.list[k]
            IN  IF ~record.hasOffset
                THEN /\ exc' = "KeyError"
                     /\ UNCHANGED <<pc, reqs, response, page>>
                ELSE IF ~IntOk(record.offset) \/ ~IntOk(record.length)
                THEN /\ exc' = "ValueError"
                     /\ UNCHANGED <<pc, reqs, response, page>>
                ELSE LET offset == IntVal(record.offset)
                         length == IntVal(record.length)
                     IN  /\ pc' = "range_wait"
                         /\ reqs' = Append(reqs,
                               [kind |-> "range", filename |-> record.filename,
                                first |-> offset, last |-> offset + length - 1])
                         /\ response' = NoResponse
                         /\ UNCHANGED <<exc, page>>
       ELSE /\ pc' = "fetched"
            /\ page' = NonePage
            /\ UNCHANGED <<exc, reqs, response>>
    /\ UNCHANGED <<crawls, ci, idxs, records, yi, ui, cands, k, out>>

\* The storage endpoint answers, or the connection fails.
RangeRespond ==
    /\ pc = "range_wait" /\ exc = NoExc
    /\ UNCHANGED <<saved, sent>>
    /\ response = NoResponse
    /\ Storage(cands.list[k].filename) # NoResponse
    /\ response' = Storage(cands.list[k].filename)
    /\ UNCHANGED <<pc, exc, crawls, ci, idxs, records, yi, ui, cands, k, page,
                   reqs, out>>

\* RangeHandle that requests the same candidate again after a status other
\* than 206, instead of moving to the next one.
RangeHandle_Retry ==
    /\ pc = "range_wait" /\ exc = NoExc
    /\ UNCHANGED <<saved, sent>>
    /\ response # NoResponse
    /\ IF response.err
       THEN /\ exc' = "ConnectionError"
            /\ UNCHANGED <<pc, k, page, out>>
       ELSE IF response.status # 206
       THEN /\ pc' = "fetch"
            /\ UNCHANGED <<exc, k, page, out>>
       ELSE LET r == ScanStream(response.body)
            IN  IF r.kind = "found"
                THEN /\ pc' = "fetched"
                     /\ page' = SomePage(Decode(r.body))
                     /\ UNCHANGED <<exc, k, out>>
                ELSE /\ pc' = "fetch"
                     /\ k' = k + 1
                     /\ out' = IF r.kind = "error"
                               THEN Append(out, "Error processing WARC record")
                               ELSE out
                     /\ UNCHANGED <<exc, page>>
    /\ UNCHANGED <<response, crawls, ci, idxs, records, yi, ui, cands, reqs>>

\* proxy.py 188-205: an exception of requests.get is caught nowhere; a status
\* other than 206 moves to the next candidate; on 206 the first "response"
\* record is decoded and returned, an exception of the scan is printed.
RangeHandle ==
    /\ pc = "range_wait" /\ exc = NoExc
    /\ UNCHANGED <<saved, sent>>
    /\ response # NoResponse
    /\ IF response.err
       THEN /\ exc' = "ConnectionError"
            /\ UNCHANGED <<pc, k, page, out>>
       ELSE IF response.status # 206
       THEN /\ pc' = "fetch"
            /\ k' = k + 1
            /\ UNCHANGED <<exc, page, out>>
       ELSE LET r == ScanStream(response.body)
            IN  IF r.kind = "found"
                THEN /\ pc' = "fetched"
                     /\ page' = SomePage(Decode(r.body))
                     /\ UNCHANGED <<exc, k, out>>
                ELSE /\ pc' = "fetch"
                     /\ k' = k + 1
                     /\ out' = IF r.kind = "error"
                               THEN Append(out, "Error processing WARC record")
                               ELSE out
                     /\ UNCHANGED <<exc, page>>
    /\ UNCHANGED <<response, crawls, ci, idxs, records, yi, ui, cands, reqs>>

\* proxy.py 58-65: the page's text, when not empty, is assigned into the
\* year's frame; an exception of that block is printed.
PageStep ==
    /\ pc = "fetched" /\ exc = NoExc
    /\ UNCHANGED <<saved, sent>>
    /\ IF ~page.isNone /\ ExtractText(page.val) # <<>>
       THEN LET r == DataFrameSetItem(records[CurYear], CurUrl,
                                      ExtractText(page.val))
            IN  /\ records' = [records EXCEPT ![CurYear] = r.df]
                /\ out' = IF r.exc # NoExc
                          THEN Append(out, "Error parsing HTML for url")
                          ELSE out
       ELSE UNCHANGED <<records, out>>
    /\ pc' = "urls"
    /\ ui' = ui + 1
    /\ UNCHANGED <<exc, response, crawls, ci, idxs, yi, cands, k, page, reqs>>

\* SavedYears without the test `len(df) > 0`: every year is written.
SavedYears_All(recs) == DOMAIN recs

\* save's filter (proxy.py 85-86): the years whose frame has rows.
SavedYears(recs) == {y \in DOMAIN recs : Len(recs[y].rows) > 0}

\* proxy.py 83-89: save is called after build_records; a CSV file is written
\* and a line printed for every year whose frame has rows.
Save ==
    /\ pc = "built" /\ exc = NoExc
    /\ pc' = "saved"
    /\ saved' = SavedYears(records)
    /\ out' = out \o [i \in 1..Cardinality(SavedYears(records)) |-> "Saved records"]
    /\ UNCHANGED <<exc, response, crawls, ci, idxs, records, yi, ui, cands, k,
                   page, reqs, sent>>

(***************************************************************************)
(* Properties.                                                             *)
(***************************************************************************)
RangeReqs == SelectSeq(reqs, LAMBDA r : r.kind = "range")

\* The capture record carries an offset and a length that int() accepts.
WellFormedCapture(rec) ==
    rec.hasOffset /\ IntOk(rec.offset) /\ IntOk(rec.length)

\* The storage endpoint answers the candidate's request with 206 and a
\* stream whose first readable "response" record precedes any malformation.
CandidateYields(rec) ==
    /\ WellFormedCapture(rec)
    /\ ~Storage(rec.filename).err
    /\ Storage(rec.filename).status = 206
    /\ ScanStream(Storage(rec.filename).body).kind = "found"

CandidateBody(rec) == Decode(ScanStream(Storage(rec.filename).body).body)

\* The call of _fetch for the current pair is over: it returned or raised.
FetchEnded ==
    \/ pc = "fetched"
    \/ pc \in {"fetch", "range_wait"} /\ exc # NoExc

\* C1: when only the K-th of the N candidates yields a 206 response with a
\* response record, _fetch returns the decoded body of the K-th candidate
\* and has issued exactly K range requests, for candidates 1..K in order.
C1_ReturnsKthCandidate ==
    \A K \in 1..Len(cands.list) :
        ( /\ FetchEnded
          /\ \A i \in 1..Len(cands.list) : WellFormedCapture(cands.list[i])
          /\ \A i \in 1..Len(cands.list) :
                 CandidateYields(cands.list[i]) <=> i = K )
        => /\ pc = "fetched"
           /\ ~page.isNone
           /\ page.val = CandidateBody(cands.list[K])
           /\ Len(RangeReqs) = K
           /\ \A i \in 1..K : RangeReqs[i].filename = cands.list[i].filename

\* C2: when no candidate of the N yields a usable body (the request fails,
\* the status is not 206, the stream is malformed or holds no response
\* record), _fetch returns None after one request per candidate and raises
\* nothing.
C2_ExhaustedReturnsNone ==
    ( /\ FetchEnded
      /\ Len(cands.list) > 0
      /\ \A i \in 1..Len(cands.list) :
             WellFormedCapture(cands.list[i]) /\ ~CandidateYields(cands.list[i]) )
    => /\ exc = NoExc
       /\ pc = "fetched"
       /\ page.isNone
       /\ Len(RangeReqs) = Len(cands.list)

\* C3: a catalog request that fails or is answered with a status other than
\* 200 ends the run: _init_idxs never goes on to scan an empty catalog, and
\* the exit is preceded by a diagnostic and followed by no further request.
C3_CatalogFailureIsFatal ==
    /\ pc = "scan" => (~response.err /\ response.status = 200)
    /\ pc = "exit" =>
          /\ out = <<"Error accessing Common Crawl indexes">>
          /\ \A i \in 1..Len(reqs) : reqs[i].kind = "collinfo"

\* C4: no failure of the lookup or of the fetch of one url ends
\* build_records: no exception leaves _query or _fetch uncaught.
C4_FailureConfinedToUrl ==
    pc \in {"lookup_wait", "queried", "fetch", "range_wait", "fetched"}
        => exc = NoExc

RowsFor(y, u) == {i \in 1..Len(records[y].rows) : records[y].rows[i][1] = u}

\* C5: once a url of a year has been processed, the year's frame holds
\* exactly one row (url, text) for it when the lookup was not empty, the fetch
\* returned a page and the page's text is not empty, and no row otherwise.
C5_ResultSetHoldsSuccesses ==
    (pc = "urls" /\ ui > 1) =>
        LET u == Urls[ui - 1]
            success == /\ ~cands.isNone /\ Len(cands.list) > 0
                       /\ ~page.isNone /\ ExtractText(page.val) # <<>>
        IN  IF success
            THEN /\ Cardinality(RowsFor(CurYear, u)) = 1
                 /\ \A i \in RowsFor(CurYear, u) :
                        records[CurYear].rows[i] = <<u, ExtractText(page.val)>>
            ELSE RowsFor(CurYear, u) = {}

\* The descriptor's start timestamp names year y and the target month.
MatchesYear(c, y) ==
    /\ c.hasTimegate
    /\ LET sd == SplitFirst(c.timegate)
       IN  /\ Len(sd) >= 7
           /\ SubSeq(sd, 6, 7) = TargetMonth
           /\ IntOk(SubSeq(sd, 1, 4))
           /\ IntVal(SubSeq(sd, 1, 4)) = y

ModelYears == 2018..2023

\* C6: throughout the scan of the catalog, the selection maps each year of
\* the range to exactly one id, the id of the first descriptor scanned so far
\* that matches the year, and holds no other year.
C6_FirstMatchWins ==
    (pc = "scan" /\ exc = NoExc) =>
        /\ \A i, j \in 1..Len(idxs) : idxs[i].yr = idxs[j].yr => i = j
        /\ DictKeys(idxs) \subseteq YearRange
        /\ \A y \in ModelYears :
              LET M == {i \in 1..(ci - 1) : MatchesYear(crawls[i], y)}
              IN  IF y \in YearRange /\ M # {}
                  THEN \E e \in 1..Len(idxs) :
                          /\ idxs[e].yr = y
                          /\ idxs[e].id =
                               crawls[CHOOSE i \in M : \A j \in M : i <= j].id
                  ELSE y \notin DictKeys(idxs)

\* C6 witness: the scan has ended on a catalog in which two descriptors match
\* the same year, and the year is selected.
C6_Witness ==
    /\ pc = "scan" /\ exc = NoExc /\ ci > Len(crawls)
    /\ \E i, j \in 1..Len(crawls) :
          /\ i < j
          /\ MatchesYear(crawls[i], 2020) /\ MatchesYear(crawls[j], 2020)
          /\ \E e \in 1..Len(idxs) : idxs[e] = [yr |-> 2020, id |-> crawls[i].id]

\* C7: a lookup answered with a status other than 200 makes _query return an
\* empty result (None) and raise nothing.
C7_NonSuccessIsEmpty ==
    /\ (pc = "queried" /\ response.status # 200) =>
           (exc = NoExc /\ cands.isNone /\ cands.list = <<>>)
    /\ (pc = "lookup_wait" /\ exc # NoExc) =>
           (response.err \/ response.status = 200)

\* C7 witness: _query has returned None for a 404 answer.
C7_Witness ==
    pc = "queried" /\ ~response.err /\ response.status = 404 /\ cands.isNone

\* The capture records of the well-formed lines of a body, in body order.
RECURSIVE WellFormedLines(_)
WellFormedLines(t) ==
    IF t = <<>> THEN <<>>
    ELSE IF Head(t).kind = "json"
         THEN <<Head(t).rec>> \o WellFormedLines(Tail(t))
         ELSE WellFormedLines(Tail(t))

\* C8: a lookup answered with status 200 never raises; _query returns the
\* records of the well-formed lines in response order, none for an empty body.
C8_LinesParsedIndependently ==
    /\ ~(pc = "lookup_wait" /\ exc # NoExc /\ ~response.err
            /\ response.status = 200)
    /\ (pc = "queried" /\ response.status = 200) =>
           cands.list = WellFormedLines(response.body)

\* The result of the lookup is None or an empty list.
EmptyResult(c) == c.isNone \/ c.list = <<>>

\* C9: for a pair whose lookup result is empty, _fetch is not entered, no
\* range request is issued, and the year's frame gets no row for the url.
C9_EmptyLocateSkipsFetch ==
    (pc \in {"queried", "fetch", "range_wait", "fetched", "urls"}
        /\ EmptyResult(cands)) =>
        /\ pc \in {"queried", "urls"}
        /\ RangeReqs = <<>>
        /\ (pc = "urls" /\ ui > 1) => RowsFor(CurYear, Urls[ui - 1]) = {}

\* C9 witness: the lookup of a url was answered 404 and the loop has moved
\* on to the next url.
C9_Witness ==
    /\ pc = "urls" /\ ui > 1
    /\ ~response.err /\ response.status = 404
    /\ EmptyResult(cands)
    /\ RangeReqs = <<>>

\* C10: a malformed descriptor (no id, or a start year that is not a number)
\* raises nothing out of the scan of the catalog.
C10_MalformedDescriptorSkipped ==
    pc = "scan" => exc = NoExc

\* The descriptor carries an id and a start timestamp of fewer than 7
\* characters.
ShortStart(c) ==
    c.hasId /\ c.hasTimegate /\ Len(SplitFirst(c.timegate)) < 7

\* C11: a descriptor whose start timestamp is shorter than 7 characters
\* raises nothing when scanned, is never the selection of a year, and a
\* matching descriptor scanned after it is still selected for its year.
C11_ShortTimestampSkipped ==
    pc = "scan" =>
        /\ (exc # NoExc) => ~ShortStart(crawls[ci])
        /\ \A i \in 1..(ci - 1) :
              ShortStart(crawls[i]) =>
                  /\ \A e \in 1..Len(idxs) : idxs[e].id # crawls[i].id
                  /\ \A j \in (i + 1)..(ci - 1) : \A y \in YearRange :
                        MatchesYear(crawls[j], y) => y \in DictKeys(idxs)

\* C11 witness: a short start timestamp whose year prefix is not a number
\* has been scanned, and the matching descriptor after it is the selection.
C11_Witness ==
    /\ pc = "scan" /\ exc = NoExc /\ ci = 3
    /\ crawls[1].timegate = TG_ShortNonNum
    /\ MatchesYear(crawls[2], 2020)
    /\ idxs = <<[yr |-> 2020, id |-> crawls[2].id]>>

\* C12: when build_records has returned, every selected year has a frame,
\* an empty one included; save then writes a file exactly for the years whose
\* frame has rows and raises nothing for the others.
C12_EveryYearHasResultSet ==
    /\ pc \in {"built", "saved"} =>
          /\ DOMAIN records = DictKeys(idxs)
          /\ \A y \in DOMAIN records : records[y].columns = <<"url", "content">>
    /\ pc = "saved" =>
          /\ exc = NoExc
          /\ saved = {y \in DOMAIN records : records[y].rows # <<>>}

\* C12 witness: save has run over two years, and the year 2020, whose frame
\* is empty, has no file.
C12_Witness ==
    /\ pc = "saved"
    /\ DictKeys(idxs) = {2020, 2021}
    /\ records[2020].rows = <<>>
    /\ 2020 \notin saved

\* C13: within one call of _fetch the i-th range request is the request for
\* the i-th candidate's byte span, a candidate is requested only after the
\* one before it was handled, and no candidate is requested twice: a status
\* other than 206 moves on to the next candidate.
C13_CandidatesInOrderOnce ==
    pc \in {"fetch", "range_wait", "fetched"} =>
        /\ Len(RangeReqs) <= Len(cands.list)
        /\ \A i \in 1..Len(RangeReqs) :
              /\ RangeReqs[i].filename = cands.list[i].filename
              /\ RangeReqs[i].first = IntVal(cands.list[i].offset)
              /\ RangeReqs[i].last =
                    IntVal(cands.list[i].offset) + IntVal(cands.list[i].length) - 1
        /\ pc = "fetch" => Len(RangeReqs) = k - 1
        /\ pc = "range_wait" => Len(RangeReqs) = k

\* C13 witness: the first candidate was answered 200 and the second
\* candidate has been requested, each once.
C13_Witness ==
    /\ pc = "range_wait" /\ exc = NoExc /\ k = 2
    /\ cands.list[1].filename = "status200.warc.gz"
    /\ Len(RangeReqs) = 2
    /\ RangeReqs[2].filename = cands.list[2].filename

\* The positions of a stream that hold a "response" record with neither a
\* "response" record nor a malformation before them (at most one position).
FirstResponseAt(stream) ==
    {i \in 1..Len(stream) :
        /\ stream[i].type = "response"
        /\ \A j \in 1..(i - 1) : stream[j].type \notin {"response", "malformed"}}

\* C14: a page returned by _fetch is the decoded body of the first "response"
\* record of the 206 stream just received, whatever other records precede
\* it; a 206 stream raises nothing out of _fetch, and it is abandoned for the
\* next candidate exactly when it is malformed before, or ends without, a
\* "response" record.
C14_FirstResponseRecord ==
    /\ (pc = "fetched" /\ ~page.isNone) =>
           /\ ~response.err /\ response.status = 206
           /\ \E i \in FirstResponseAt(response.body) :
                  page.val = Decode(response.body[i].body)
    /\ (pc = "range_wait" /\ exc # NoExc) => response.err
    /\ (/\ \/ pc = "fetch" /\ k > 1
           \/ pc = "fetched" /\ page.isNone
        /\ ~response.err /\ response.status = 206) =>
           FirstResponseAt(response.body) = {}

\* C14 witness: the page is the body of a "response" record that follows a
\* "request" record.
C14_Witness ==
    /\ pc = "fetched"
    /\ response = Resp(206, <<Request, WarcRec("response", BodyHi)>>)
    /\ page = SomePage(<<104, 105>>)

\* C14 witness: a stream malformed after a "request" record was abandoned and
\* the next candidate is about to be tried.
C14_WitnessAbandoned ==
    /\ pc = "fetch" /\ exc = NoExc /\ k = 2 /\ Len(cands.list) = 2
    /\ response = Resp(206, <<Request, Malformed>>)

\* The (year, url) pairs in the order build_records visits them.
AllPairs ==
    [n \in 1..(Len(idxs) * Len(Urls)) |->
        <<idxs[((n - 1) \div Len(Urls)) + 1].yr, Urls[((n - 1) % Len(Urls)) + 1]>>]

\* C15: the catalog is requested once, before any lookup or range request;
\* every pair is looked up once, in visiting order; and while a pair is being
\* processed its lookup is the first request of the iteration and every other
\* request of the iteration is a range request.
C15_RequestOrder ==
    /\ sent.collinfo = IF pc = "new" THEN 0 ELSE 1
    /\ pc \in {"new", "collinfo_wait", "scan", "exit", "constructed"} =>
          /\ sent.lookups = <<>>
          /\ \A i \in 1..Len(reqs) : reqs[i].kind = "collinfo"
    /\ Len(sent.lookups) <= Len(AllPairs)
    /\ sent.lookups = SubSeq(AllPairs, 1, Len(sent.lookups))
    /\ pc \in {"lookup_wait", "queried", "fetch", "range_wait", "fetched"} =>
          /\ sent.lookups # <<>>
          /\ sent.lookups[Len(sent.lookups)] = <<CurYear, CurUrl>>
          /\ reqs[1] = [kind |-> "lookup", idx |-> idxs[yi].id, url |-> CurUrl]
          /\ \A i \in 2..Len(reqs) : reqs[i].kind = "range"
    /\ pc \in {"built", "saved"} => sent.lookups = AllPairs

\* C15 witness: the second url of the second year has been looked up and a
\* range request for it is outstanding.
C15_Witness ==
    /\ pc = "range_wait" /\ yi = 2 /\ ui = 2
    /\ sent.collinfo = 1
    /\ Len(sent.lookups) = Len(Urls) + 2
    /\ Len(reqs) = 2

Printed(msg) == \E i \in 1..Len(out) : out[i] = msg

\* C16: every candidate abandoned by _fetch has printed a line before the
\* next one is tried; a url that ends without a page, because its lookup was
\* empty or every candidate failed, has printed a line about the url; a page
\* whose text is empty prints no failure line.
C16_FailuresReported ==
    /\ (pc = "fetch" /\ exc = NoExc) => Len(out) >= k - 1
    /\ (pc = "urls" /\ ui > 1 /\ (EmptyResult(cands) \/ page.isNone)) =>
           \E i \in 1..Len(out) : out[i] # "Error processing WARC record"
    /\ (pc = "urls" /\ ui > 1 /\ ~page.isNone /\ ExtractText(page.val) = <<>>) =>
           ~Printed("Error parsing HTML for url")

\* C17: no range request holds the run up for ever: the run ends, by
\* build_records and save returning, by the exit of the constructor, or by an
\* exception.
C17_RunFinishes ==
    <>(pc \in {"saved", "exit"} \/ exc # NoExc)

\* C18: once _init_idxs has returned, no step of build_records, _query,
\* _fetch or save changes self.idxs.
C18_IdxsReadOnly ==
    [][pc \notin {"new", "collinfo_wait", "scan"} => idxs' = idxs]_vars

\* C18 witness: build_records and save have run over a selection of two
\* years, one of whose fetches returned a page, and the selection is in place.
C18_Witness ==
    /\ pc = "saved"
    /\ Len(idxs) = 2
    /\ DictKeys(idxs) = DOMAIN records
    /\ ~page.isNone

\* The candidate's request is answered, with a status other than 206 or
\* with a stream that has no "response" record before its end or malformation.
AnsweredUnusable(rec) ==
    /\ WellFormedCapture(rec)
    /\ Storage(rec.filename) # NoResponse
    /\ ~Storage(rec.filename).err
    /\ \/ Storage(rec.filename).status # 206
       \/ FirstResponseAt(Storage(rec.filename).body) = {}

\* The candidate's request is answered 206 with a stream whose first
\* "response" record has a body that decodes to the empty string.
AnsweredEmptyBody(rec) ==
    /\ WellFormedCapture(rec)
    /\ ~Storage(rec.filename).err
    /\ Storage(rec.filename).status = 206
    /\ \E i \in FirstResponseAt(Storage(rec.filename).body) :
           Decode(Storage(rec.filename).body[i].body) = <<>>

\* C19: when the first candidate that holds a "response" record holds one
\* with an empty body, _fetch returns the empty string and not None, requests
\* no later candidate, and build_records adds no row and prints nothing for
\* the url, whatever the later candidates hold.
C19_EmptyBodyEndsChain ==
    \A j \in 1..Len(cands.list) :
        ( /\ pc = "fetched" \/ (pc = "urls" /\ ui > 1)
          /\ \A i \in 1..(j - 1) : AnsweredUnusable(cands.list[i])
          /\ AnsweredEmptyBody(cands.list[j]) )
        => /\ page = SomePage(<<>>)
           /\ Len(RangeReqs) = j
           /\ pc = "urls" =>
                 /\ RowsFor(CurYear, Urls[ui - 1]) = {}
                 /\ ~Printed("Error parsing HTML for url")

\* C19 witness: the first candidate's response record is empty, the second
\* candidate holds the page "hi", and the url was finished after one request
\* with an empty page.
C19_Witness ==
    /\ pc = "urls" /\ ui = 2
    /\ Len(cands.list) = 2
    /\ cands.list[1].filename = "empty.warc.gz"
    /\ cands.list[2].filename = "hi.warc.gz"
    /\ WellFormedCapture(cands.list[2])
    /\ page = SomePage(<<>>)
    /\ Len(RangeReqs) = 1

Next ==
    \/ InitIdxsRequest
    \/ CollinfoRespond
    \/ InitIdxsHandle
    \/ ScanCrawl
    \/ InitIdxsReturn
    \/ BuildRecordsCall
    \/ YearStep
    \/ UrlStep
    \/ LookupRespond
    \/ QueryHandle
    \/ RecordsCheck
    \/ FetchStep
    \/ RangeRespond
    \/ RangeHandle
    \/ PageStep
    \/ Save

Spec == Init /\ [][Next]_vars

\* The program takes its next step whenever it has one, and the network
\* delivers every answer it is going to give.
LiveSpec == Init /\ [][Next]_vars /\ WF_vars(Next)
====
